---- MODULE Spec2Model ----
(***************************************************************************)
(* Model of the switchbot command line client (src/main.go): main reads    *)
(* two credentials from the environment, signs a header set, GETs the      *)
(* device list, GETs the status of the first device and prints five        *)
(* fields of it.                                                           *)
(*                                                                         *)
(* Go strings that reach the request signature (token, secret, nonce, the  *)
(* header values) are sequences of bytes 0..255; text that is only printed *)
(* or used as a URL is a TLA+ string.  A JSON number is an integer count   *)
(* of thousandths.                                                         *)
(***************************************************************************)
EXTENDS Integers, Sequences, FiniteSets, TLC

(***************************************************************************)
(* Bounds of the model.                                                    *)
(***************************************************************************)
\* non-empty values the environment can give SWITCHBOT_TOKEN
TokenCount == 1

\* non-empty values the environment can give SWITCHBOT_API_KEY
SecretCount == 1

\* distinct values uuid.New() can return
NonceCount == 4

\* readings of the wall clock: 0..MaxTicks steps of 123456789 ns
MaxTicks == 5

\* longest body.deviceList the server sends
MaxDevices == 2

(***************************************************************************)
(* crypto/sha256, crypto/hmac and encoding/base64 as used by createHeaders *)
(* (src/main.go:27-32).  A 32-bit word is a pair <<hi, lo>> of 16-bit      *)
(* halves.                                                                 *)
(***************************************************************************)
Pow2 == <<2, 4, 8, 16, 32, 64, 128, 256, 512, 1024, 2048, 4096, 8192, 16384, 32768, 65536>>

P2(n) == IF n = 0 THEN 1 ELSE Pow2[n]

\* a XOR b for 4-bit a, b at index 16 * a + b + 1
Xor4 ==
  <<0, 1, 2, 3, 4, 5, 6, 7, 8, 9, 10, 11, 12, 13, 14, 15,
     1, 0, 3, 2, 5, 4, 7, 6, 9, 8, 11, 10, 13, 12, 15, 14,
     2, 3, 0, 1, 6, 7, 4, 5, 10, 11, 8, 9, 14, 15, 12, 13,
     3, 2, 1, 0, 7, 6, 5, 4, 11, 10, 9, 8, 15, 14, 13, 12,
     4, 5, 6, 7, 0, 1, 2, 3, 12, 13, 14, 15, 8, 9, 10, 11,
     5, 4, 7, 6, 1, 0, 3, 2, 13, 12, 15, 14, 9, 8, 11, 10,
     6, 7, 4, 5, 2, 3, 0, 1, 14, 15, 12, 13, 10, 11, 8, 9,
     7, 6, 5, 4, 3, 2, 1, 0, 15, 14, 13, 12, 11, 10, 9, 8,
     8, 9, 10, 11, 12, 13, 14, 15, 0, 1, 2, 3, 4, 5, 6, 7,
     9, 8, 11, 10, 13, 12, 15, 14, 1, 0, 3, 2, 5, 4, 7, 6,
     10, 11, 8, 9, 14, 15, 12, 13, 2, 3, 0, 1, 6, 7, 4, 5,
     11, 10, 9, 8, 15, 14, 13, 12, 3, 2, 1, 0, 7, 6, 5, 4,
     12, 13, 14, 15, 8, 9, 10, 11, 4, 5, 6, 7, 0, 1, 2, 3,
     13, 12, 15, 14, 9, 8, 11, 10, 5, 4, 7, 6, 1, 0, 3, 2,
     14, 15, 12, 13, 10, 11, 8, 9, 6, 7, 4, 5, 2, 3, 0, 1,
     15, 14, 13, 12, 11, 10, 9, 8, 7, 6, 5, 4, 3, 2, 1, 0>>

\* a AND b for 4-bit a, b at index 16 * a + b + 1
And4 ==
  <<0, 0, 0, 0, 0, 0, 0, 0, 0, 0, 0, 0, 0, 0, 0, 0,
     0, 1, 0, 1, 0, 1, 0, 1, 0, 1, 0, 1, 0, 1, 0, 1,
     0, 0, 2, 2, 0, 0, 2, 2, 0, 0, 2, 2, 0, 0, 2, 2,
     0, 1, 2, 3, 0, 1, 2, 3, 0, 1, 2, 3, 0, 1, 2, 3,
     0, 0, 0, 0, 4, 4, 4, 4, 0, 0, 0, 0, 4, 4, 4, 4,
     0, 1, 0, 1, 4, 5, 4, 5, 0, 1, 0, 1, 4, 5, 4, 5,
     0, 0, 2, 2, 4, 4, 6, 6, 0, 0, 2, 2, 4, 4, 6, 6,
     0, 1, 2, 3, 4, 5, 6, 7, 0, 1, 2, 3, 4, 5, 6, 7,
     0, 0, 0, 0, 0, 0, 0, 0, 8, 8, 8, 8, 8, 8, 8, 8,
     0, 1, 0, 1, 0, 1, 0, 1, 8, 9, 8, 9, 8, 9, 8, 9,
     0, 0, 2, 2, 0, 0, 2, 2, 8, 8, 10, 10, 8, 8, 10, 10,
     0, 1, 2, 3, 0, 1, 2, 3, 8, 9, 10, 11, 8, 9, 10, 11,
     0, 0, 0, 0, 4, 4, 4, 4, 8, 8, 8, 8, 12, 12, 12, 12,
     0, 1, 0, 1, 4, 5, 4, 5, 8, 9, 8, 9, 12, 13, 12, 13,
     0, 0, 2, 2, 4, 4, 6, 6, 8, 8, 10, 10, 12, 12, 14, 14,
     0, 1, 2, 3, 4, 5, 6, 7, 8, 9, 10, 11, 12, 13, 14, 15>>

Xor16(a, b) ==
  Xor4[16 * (a % 16) + (b % 16) + 1]
    + 16 * Xor4[16 * ((a \div 16) % 16) + ((b \div 16) % 16) + 1]
    + 256 * Xor4[16 * ((a \div 256) % 16) + ((b \div 256) % 16) + 1]
    + 4096 * Xor4[16 * (a \div 4096) + (b \div 4096) + 1]

And16(a, b) ==
  And4[16 * (a % 16) + (b % 16) + 1]
    + 16 * And4[16 * ((a \div 16) % 16) + ((b \div 16) % 16) + 1]
    + 256 * And4[16 * ((a \div 256) % 16) + ((b \div 256) % 16) + 1]
    + 4096 * And4[16 * (a \div 4096) + (b \div 4096) + 1]

WXor(x, y) == <<Xor16(x[1], y[1]), Xor16(x[2], y[2])>>

WAnd(x, y) == <<And16(x[1], y[1]), And16(x[2], y[2])>>

WNot(x) == <<65535 - x[1], 65535 - x[2]>>

WAdd(x, y) ==
  LET lo == x[2] + y[2]
      hi == x[1] + y[1] + (lo \div 65536)
  IN  <<hi % 65536, lo % 65536>>

\* rotate right by n, 0 <= n < 32
RotR(x, n) ==
  LET y == IF n >= 16 THEN <<x[2], x[1]>> ELSE x
      m == n % 16
  IN  <<(y[1] \div P2(m)) + (y[2] % P2(m)) * P2(16 - m) ,
        (y[2] \div P2(m)) + (y[1] % P2(m)) * P2(16 - m)>>

\* logical shift right by n, 0 < n < 16
ShR(x, n) ==
  <<x[1] \div P2(n), (x[2] \div P2(n)) + (x[1] % P2(n)) * P2(16 - n)>>

BigSigma0(x) == WXor(WXor(RotR(x, 2), RotR(x, 13)), RotR(x, 22))

BigSigma1(x) == WXor(WXor(RotR(x, 6), RotR(x, 11)), RotR(x, 25))

SmallSigma0(x) == WXor(WXor(RotR(x, 7), RotR(x, 18)), ShR(x, 3))

SmallSigma1(x) == WXor(WXor(RotR(x, 17), RotR(x, 19)), ShR(x, 10))

Ch(x, y, z) == WXor(WAnd(x, y), WAnd(WNot(x), z))

Maj(x, y, z) == WXor(WXor(WAnd(x, y), WAnd(x, z)), WAnd(y, z))

SHA256K ==
  << <<17034, 12184>>, <<28983, 17553>>, <<46528, 64463>>, <<59829, 56229>>,
     <<14678, 49755>>, <<23025, 4593>>, <<37439, 33444>>, <<43804, 24277>>,
     <<55303, 43672>>, <<4739, 23297>>, <<9265, 34238>>, <<21772, 32195>>,
     <<29374, 23924>>, <<32990, 45566>>, <<39900, 1703>>, <<49563, 61812>>,
     <<58523, 27073>>, <<61374, 18310>>, <<4033, 40390>>, <<9228, 41420>>,
     <<11753, 11375>>, <<19060, 33962>>, <<23728, 43484>>, <<30457, 35034>>,
     <<38974, 20818>>, <<43057, 50797>>, <<45059, 10184>>, <<48985, 32711>>,
     <<50912, 3059>>, <<54695, 37191>>, <<1738, 25425>>, <<5161, 10599>>,
     <<10167, 2693>>, <<11803, 8504>>, <<19756, 28156>>, <<21304, 3347>>,
     <<25866, 29524>>, <<30314, 2747>>, <<33218, 51502>>, <<37490, 11397>>,
     <<41663, 59553>>, <<43034, 26187>>, <<49739, 35696>>, <<51052, 20899>>,
     <<53650, 59417>>, <<54937, 1572>>, <<62478, 13701>>, <<4202, 41072>>,
     <<6564, 49430>>, <<7735, 27656>>, <<10056, 30540>>, <<13488, 48309>>,
     <<14620, 3251>>, <<20184, 43594>>, <<23452, 51791>>, <<26670, 28659>>,
     <<29839, 33518>>, <<30885, 25455>>, <<33992, 30740>>, <<36039, 520>>,
     <<37054, 65530>>, <<42064, 27883>>, <<48889, 41975>>, <<50801, 30962>> >>

SHA256Init ==
  << <<27145, 58983>>, <<47975, 44677>>, <<15470, 62322>>, <<42319, 62778>>,
     <<20750, 21119>>, <<39685, 26764>>, <<8067, 55723>>, <<23520, 52505>> >>

\* message padding: 0x80, zeros, 64-bit big-endian bit length
RECURSIVE Zeros(_)
Zeros(n) == IF n <= 0 THEN <<>> ELSE <<0>> \o Zeros(n - 1)

Pad(msg) ==
  LET n == Len(msg)
      z == (119 - (n % 64)) % 64
      bits == n * 8
  IN  msg \o <<128>> \o Zeros(z) \o <<0, 0, 0, 0>>
          \o <<(bits \div 16777216) % 256, (bits \div 65536) % 256,
               (bits \div 256) % 256, bits % 256>>

\* the 16 big-endian words of the block starting at byte offset off
BlockWords(m, off) ==
  [i \in 1..16 |->
     <<m[off + 4 * i - 3] * 256 + m[off + 4 * i - 2],
       m[off + 4 * i - 1] * 256 + m[off + 4 * i]>>]

RECURSIVE Schedule(_)
Schedule(w) ==
  IF Len(w) = 64 THEN w
  ELSE LET t == Len(w) + 1
           nw == WAdd(WAdd(SmallSigma1(w[t - 2]), w[t - 7]),
                      WAdd(SmallSigma0(w[t - 15]), w[t - 16]))
       IN  Schedule(Append(w, nw))

\* the two temporaries of round t
Temp1(s, w, t) ==
  WAdd(WAdd(WAdd(s[8], BigSigma1(s[5])), WAdd(Ch(s[5], s[6], s[7]), SHA256K[t])), w[t])

Temp2(s) == WAdd(BigSigma0(s[1]), Maj(s[1], s[2], s[3]))

Rotate(s, t1, t2) ==
  <<WAdd(t1, t2), s[1], s[2], s[3], WAdd(s[4], t1), s[5], s[6], s[7]>>

\* one round of the compression function
Round(s, w, t) == Rotate(s, Temp1(s, w, t), Temp2(s))

\* the 64-round loop; st = [s |-> working variables, t |-> next round]
RECURSIVE Rounds(_, _)
Rounds(st, w) ==
  IF st.t > 64 THEN st.s
  ELSE Rounds([s |-> Round(st.s, w, st.t), t |-> st.t + 1], w)

AddWords(h, s) ==
  <<WAdd(h[1], s[1]), WAdd(h[2], s[2]), WAdd(h[3], s[3]), WAdd(h[4], s[4]),
    WAdd(h[5], s[5]), WAdd(h[6], s[6]), WAdd(h[7], s[7]), WAdd(h[8], s[8])>>

Compress(h, m, off) ==
  AddWords(h, Rounds([s |-> h, t |-> 1], Schedule(BlockWords(m, off))))

\* the block loop; st = [h |-> chaining value, off |-> bytes consumed]
RECURSIVE Blocks(_, _)
Blocks(st, m) ==
  IF st.off >= Len(m) THEN st.h
  ELSE Blocks([h |-> Compress(st.h, m, st.off), off |-> st.off + 64], m)

RECURSIVE WordBytes(_, _)
WordBytes(h, i) ==
  IF i > Len(h) THEN <<>>
  ELSE <<h[i][1] \div 256, h[i][1] % 256, h[i][2] \div 256, h[i][2] % 256>>
         \o WordBytes(h, i + 1)

Sha256(msg) == WordBytes(Blocks([h |-> SHA256Init, off |-> 0], Pad(msg)), 1)

\* a key longer than the block is hashed; the key is then zero-padded to 64
BlockKey(key) == IF Len(key) > 64 THEN Sha256(key) ELSE key

ZeroPad(k) == k \o Zeros(64 - Len(k))

XorPad(k, c) == [i \in 1..64 |-> Xor16(k[i], c)]

Hmac(k, msg) == Sha256(XorPad(k, 92) \o Sha256(XorPad(k, 54) \o msg))

HmacSha256(key, msg) == Hmac(ZeroPad(BlockKey(key)), msg)

\* base64.StdEncoding: the alphabet A-Z a-z 0-9 + / and the padding '='
StdAlphabet ==
  <<65, 66, 67, 68, 69, 70, 71, 72, 73, 74, 75, 76, 77, 78, 79, 80, 81, 82, 83,
    84, 85, 86, 87, 88, 89, 90, 97, 98, 99, 100, 101, 102, 103, 104, 105, 106,
    107, 108, 109, 110, 111, 112, 113, 114, 115, 116, 117, 118, 119, 120, 121,
    122, 48, 49, 50, 51, 52, 53, 54, 55, 56, 57, 43, 47>>

RECURSIVE EncodeToString(_)
EncodeToString(b) ==
  IF Len(b) = 0 THEN <<>>
  ELSE IF Len(b) = 1
    THEN <<StdAlphabet[(b[1] \div 4) + 1], StdAlphabet[(b[1] % 4) * 16 + 1],
           61, 61>>
  ELSE IF Len(b) = 2
    THEN <<StdAlphabet[(b[1] \div 4) + 1],
           StdAlphabet[(b[1] % 4) * 16 + (b[2] \div 16) + 1],
           StdAlphabet[(b[2] % 16) * 4 + 1], 61>>
  ELSE <<StdAlphabet[(b[1] \div 4) + 1],
         StdAlphabet[(b[1] % 4) * 16 + (b[2] \div 16) + 1],
         StdAlphabet[(b[2] % 16) * 4 + (b[3] \div 64) + 1],
         StdAlphabet[(b[3] % 64) + 1]>>
         \o EncodeToString(SubSeq(b, 4, Len(b)))

\* fmt.Sprintf("%d", n) for n >= 0, as bytes
RECURSIVE FormatInt(_)
FormatInt(n) ==
  IF n < 10 THEN <<48 + n>> ELSE FormatInt(n \div 10) \o <<48 + (n % 10)>>

(***************************************************************************)
(* The environment of a run.                                               *)
(***************************************************************************)
\* "t1", "t2", ...: the non-empty tokens; "" is an unset or empty variable
Tokens == {<<>>} \cup {<<116, 48 + i>> : i \in 1..TokenCount}

\* "s1", "s2", ...
Secrets == {<<>>} \cup {<<115, 48 + i>> : i \in 1..SecretCount}

\* "00000000-0000-4000-8000-00000000000" followed by one more character
Nonces ==
  {<<48, 48, 48, 48, 48, 48, 48, 48, 45, 48, 48, 48, 48, 45, 52, 48, 48, 48,
     45, 56, 48, 48, 48, 45, 48, 48, 48, 48, 48, 48, 48, 48, 48, 48, 48,
     48 + i>> : i \in 1..NonceCount}

\* time.Now().UnixNano()
Nows == {i * 123456789 : i \in 0..MaxTicks}

\* time.Millisecond, in nanoseconds
Millisecond == 1000000

NilError == "<nil>"

\* faulty variant: the nonce is signed before the timestamp
createHeaders_NonceFirst(tok, sec, nonce, now) ==
  LET t == now \div 1000000
      stringToSign == tok \o nonce \o FormatInt(t)
      sign == EncodeToString(HmacSha256(sec, stringToSign))
  IN  [headers |-> ("Authorization" :> tok)
                     @@ ("Content-Type" :> <<97, 112, 112, 108, 105, 99, 97, 116,
                                            105, 111, 110, 47, 106, 115, 111, 110>>)
                     @@ ("charset" :> <<117, 116, 102, 45, 56>>)
                     @@ ("t" :> FormatInt(t))
                     @@ ("sign" :> sign)
                     @@ ("nonce" :> nonce),
       err |-> NilError]

(***************************************************************************)
(* createHeaders (src/main.go:18-44); nonce and now are what uuid.New()    *)
(* and time.Now() returned to this call.                                   *)
(***************************************************************************)
createHeaders(tok, sec, nonce, now) ==
  LET t == now \div Millisecond
      stringToSign == tok \o FormatInt(t) \o nonce
      signature == HmacSha256(sec, stringToSign)
      sign == EncodeToString(signature)
      apiHdr == ("Authorization" :> tok)
                  @@ ("Content-Type" :> <<97, 112, 112, 108, 105, 99, 97, 116,
                                         105, 111, 110, 47, 106, 115, 111, 110>>)
                  @@ ("charset" :> <<117, 116, 102, 45, 56>>)
                  @@ ("t" :> FormatInt(t))
                  @@ ("sign" :> sign)
                  @@ ("nonce" :> nonce)
  IN  [headers |-> apiHdr, err |-> NilError]

(***************************************************************************)
(* JSON values as encoding/json decodes them into interface{}: nil, bool,  *)
(* float64, string, []interface{} and map[string]interface{}.              *)
(***************************************************************************)
JNull == [kind |-> "null"]

JBool(b) == [kind |-> "bool", bool |-> b]

JNum(n) == [kind |-> "number", num |-> n]

JStr(s) == [kind |-> "string", str |-> s]

JArr(items) == [kind |-> "array", items |-> items]

JObj(fields) == [kind |-> "object", fields |-> fields]

\* a response body: bytes that are valid JSON for the value json, or not JSON
JsonBody(v) == [nil |-> FALSE, valid |-> TRUE, json |-> v]

Malformed == [nil |-> FALSE, valid |-> FALSE, json |-> JNull]

\* the nil []byte returned with an error
NilBody == [nil |-> TRUE, valid |-> FALSE, json |-> JNull]

\* m[k] on a map[string]interface{}: nil for a missing key and for a nil map
Index(m, k) == IF k \in DOMAIN m THEN m[k] ELSE JNull

\* the dynamic type in the message of a failed type assertion
GoTypeName(v) ==
  CASE v.kind = "null" -> "nil"
    [] v.kind = "bool" -> "bool"
    [] v.kind = "number" -> "float64"
    [] v.kind = "string" -> "string"
    [] v.kind = "array" -> "[]interface {}"
    [] v.kind = "object" -> "map[string]interface {}"

\* json.Unmarshal(body, &m) with m a nil map[string]interface{}
Unmarshal(body) ==
  IF ~body.valid
    THEN [map |-> <<>>, err |-> "invalid character looking for beginning of value"]
  ELSE IF body.json.kind = "object"
    THEN [map |-> body.json.fields, err |-> NilError]
  ELSE IF body.json.kind = "null"
    THEN [map |-> <<>>, err |-> NilError]
  ELSE [map |-> <<>>,
        err |-> "json: cannot unmarshal " \o body.json.kind
                  \o " into Go value of type map[string]interface {}"]

(***************************************************************************)
(* fmt verbs on text that is printed.                                      *)
(***************************************************************************)
Digits == <<"0", "1", "2", "3", "4", "5", "6", "7", "8", "9">>

\* %d
RECURSIVE Itoa(_)
Itoa(n) ==
  IF n < 0 THEN "-" \o Itoa(0 - n)
  ELSE IF n < 10 THEN Digits[n + 1]
  ELSE Itoa(n \div 10) \o Digits[(n % 10) + 1]

\* %.2f of the float64 n / 1000; n is never a tie (n % 10 # 5), so rounding
\* to nearest does not depend on the binary expansion
FormatFloat2(n) ==
  LET a == IF n < 0 THEN 0 - n ELSE n
      h == (a + 5) \div 10
  IN  (IF n < 0 THEN "-" ELSE "") \o Itoa(h \div 100) \o "."
        \o Digits[((h \div 10) % 10) + 1] \o Digits[(h % 10) + 1]

(***************************************************************************)
(* What the server can answer.                                             *)
(***************************************************************************)
StatusOK == 200

StatusCodes == {200, 201, 404, 500}

DeviceIds == {"ABC123", "XYZ789", "A\tB"}

\* elements of body.deviceList: well formed, and the malformed shapes
DeviceRecords ==
  {JObj("deviceId" :> JStr(id)) : id \in DeviceIds}
    \cup {JObj("deviceName" :> JStr("Meter")), JStr("ABC123")}

RECURSIVE SeqsUpTo(_, _)
SeqsUpTo(S, n) ==
  IF n = 0 THEN {<<>>}
  ELSE LET shorter == SeqsUpTo(S, n - 1)
       IN  shorter \cup {Append(s, x) : s \in {q \in shorter : Len(q) = n - 1}, x \in S}

\* the elements after the first, which main never looks at
OtherDevices == {JObj("deviceId" :> JStr(id)) : id \in {"ABC123", "XYZ789"}}

\* the empty list, and any first element followed by other devices
DeviceLists ==
  {<<>>} \cup {<<d>> \o rest : d \in DeviceRecords, rest \in SeqsUpTo(OtherDevices, MaxDevices - 1)}

\* bodies of the devices endpoint
DevicesBodies ==
  {JsonBody(JObj(("statusCode" :> JNum(100000)) @@ ("body" :> JObj("deviceList" :> JArr(l)))))
     : l \in DeviceLists}
    \cup {Malformed,
          JsonBody(JNull),
          JsonBody(JArr(<<>>)),
          JsonBody(JObj("statusCode" :> JNum(190000))),
          JsonBody(JObj("body" :> JStr("none"))),
          JsonBody(JObj("body" :> JNull)),
          JsonBody(JObj("body" :> JObj("devices" :> JArr(<<>>)))),
          JsonBody(JObj("body" :> JObj("deviceList" :> JNull))),
          JsonBody(JObj("body" :> JObj("deviceList" :> JObj(<<>>))))}

Absent == [kind |-> "absent"]

\* what each field of the status body can be
StatusFieldValues ==
  [deviceId |-> {JNum(1000), JStr("ABC123")},
   deviceType |-> {JNull, JStr("Meter")},
   hubDeviceId |-> {Absent, JStr("HUB001")},
   humidity |-> {Absent, JStr("55.5"), JNum(55500)},
   temperature |-> {JBool(TRUE), JNum(21346), JNum(0 - 3054)}]

\* the entry k: v of a JSON object, or nothing when v is absent
Member(k, v) == IF v.kind = "absent" THEN <<>> ELSE k :> v

StatusObjects ==
  {Member("deviceId", a) @@ Member("deviceType", b) @@ Member("hubDeviceId", c)
     @@ Member("humidity", d) @@ Member("temperature", e)
     : a \in StatusFieldValues.deviceId, b \in StatusFieldValues.deviceType,
       c \in StatusFieldValues.hubDeviceId, d \in StatusFieldValues.humidity,
       e \in StatusFieldValues.temperature}

\* bodies of the device status endpoint
StatusBodies ==
  {JsonBody(JObj(("statusCode" :> JNum(100000)) @@ ("body" :> JObj(o)))) : o \in StatusObjects}
    \cup {Malformed,
          JsonBody(JNull),
          JsonBody(JStr("ok")),
          JsonBody(JObj("message" :> JStr("success"))),
          JsonBody(JObj("body" :> JNull)),
          JsonBody(JObj("body" :> JStr("none"))),
          JsonBody(JObj("body" :> JArr(<<>>)))}

\* what a non-200 response carries
ErrorPage == Malformed

(***************************************************************************)
(* The state of one run of main.                                           *)
(***************************************************************************)
VARIABLES
  env,              \* the process environment
  pc,               \* the statement main or callSwitchBotAPI is at
  exit,             \* "running", "returned" (main returned) or "panic"
  token, secret,    \* locals of main
  apiHeader,
  bodyDevices,
  devicesResponse,
  devices,
  deviceID,
  bodyDeviceStatus,
  statusResponse,
  call,             \* arguments of the running callSwitchBotAPI
  req,              \* its *http.Request
  resp,             \* its *http.Response
  ret,              \* what the last callSwitchBotAPI returned
  stdout,
  stderr,
  requests,         \* history: the requests handed to client.Do
  responses,        \* history: the responses obtained, with their Close count
  events            \* history: header builds and calls, in order

vars ==
  <<env, pc, exit, token, secret, apiHeader, bodyDevices, devicesResponse,
    devices, deviceID, bodyDeviceStatus, statusResponse, call, req, resp, ret,
    stdout, stderr, requests, responses, events>>

locals ==
  <<token, secret, apiHeader, bodyDevices, devicesResponse, devices, deviceID,
    bodyDeviceStatus, statusResponse>>

callVars == <<call, req, resp, ret, requests, responses>>

apiURLDevices == "https://api.switch-bot.com/v1.1/devices"

NoCall == [site |-> "none", url |-> "", headers |-> <<>>]

NoRequest == [method |-> "", url |-> "", header |-> <<>>]

NoResponse == [status |-> 0, body |-> NilBody]

NoReturn == [body |-> NilBody, err |-> NilError]

\* fmt.Println / fmt.Printf of text without a response body in it
Line(text) == [text |-> text, raw |-> FALSE, body |-> NilBody]

\* fmt.Printf("... %s\n", string(body))
RawLine(text, body) == [text |-> text, raw |-> TRUE, body |-> body]

Init ==
  /\ env \in [SWITCHBOT_TOKEN : Tokens, SWITCHBOT_API_KEY : Secrets]
  /\ pc = "getenv"
  /\ exit = "running"
  /\ token = <<>>
  /\ secret = <<>>
  /\ apiHeader = <<>>
  /\ bodyDevices = NilBody
  /\ devicesResponse = <<>>
  /\ devices = <<>>
  /\ deviceID = ""
  /\ bodyDeviceStatus = NilBody
  /\ statusResponse = <<>>
  /\ call = NoCall
  /\ req = NoRequest
  /\ resp = NoResponse
  /\ ret = NoReturn
  /\ stdout = <<>>
  /\ stderr = <<>>
  /\ requests = <<>>
  /\ responses = <<>>
  /\ events = <<>>

\* main returns after printing lines
Return(lines) ==
  /\ stdout' = stdout \o lines
  /\ pc' = "exit"
  /\ exit' = "returned"
  /\ UNCHANGED stderr

\* a failed type assertion x.(T): the runtime prints the panic and exits 2
Panic(v, want) ==
  /\ stderr' = Append(stderr, "panic: interface conversion: interface {} is "
                                \o GoTypeName(v) \o ", not " \o want)
  /\ pc' = "exit"
  /\ exit' = "panic"
  /\ UNCHANGED stdout

\* the exit status of the process
ExitStatus == IF exit = "panic" THEN 2 ELSE 0

\* faulty variant: only the token is checked
credentialsMissing_TokenOnly(tok, sec) == tok = <<>>

\* main.go:86
credentialsMissing(tok, sec) == tok = <<>> \/ sec = <<>>

\* main.go:83-89
GetEnv ==
  /\ pc = "getenv"
  /\ token' = env.SWITCHBOT_TOKEN
  /\ secret' = env.SWITCHBOT_API_KEY
  /\ IF credentialsMissing(token', secret')
       THEN Return(<<Line("Error: SWITCHBOT_TOKEN or SWITCHBOT_API_KEY environment variable is not set")>>)
       ELSE /\ pc' = "createHeaders"
            /\ UNCHANGED <<exit, stdout, stderr>>
  /\ UNCHANGED <<env, apiHeader, bodyDevices, devicesResponse, devices, deviceID,
                 bodyDeviceStatus, statusResponse, callVars, events>>

\* main.go:93-96: main with the result r of createHeaders
HeadersCreated(r) ==
  IF r.err # NilError
    THEN /\ Return(<<Line("Error creating headers: " \o r.err)>>)
         /\ UNCHANGED apiHeader
    ELSE /\ apiHeader' = r.headers
         /\ pc' = "callDevices"
         /\ UNCHANGED <<exit, stdout, stderr>>

\* main.go:92-96
CreateHeaders ==
  /\ pc = "createHeaders"
  /\ \E nonce \in Nonces, now \in Nows :
       HeadersCreated(createHeaders(token, secret, nonce, now))
  /\ events' = Append(events, "createHeaders")
  /\ UNCHANGED <<env, token, secret, bodyDevices, devicesResponse, devices, deviceID,
                 bodyDeviceStatus, statusResponse, callVars>>

\* main.go:99-100: callSwitchBotAPI(apiURLDevices, apiHeader) is entered
CallDevices ==
  /\ pc = "callDevices"
  /\ call' = [site |-> "devices", url |-> apiURLDevices, headers |-> apiHeader]
  /\ pc' = "NewRequest"
  /\ events' = Append(events, "call devices")
  /\ UNCHANGED <<env, exit, locals, req, resp, ret, stdout, stderr, requests, responses>>

(***************************************************************************)
(* callSwitchBotAPI (src/main.go:47-79).                                   *)
(***************************************************************************)
\* url.Parse rejects a URL with an ASCII control byte; of the URLs of the
\* model, those of a device id with a tab in it
stringContainsCTLByte(url) ==
  \E id \in {"A\tB"} : url = apiURLDevices \o "/" \o id \o "/status"

\* textproto.CanonicalMIMEHeaderKey on the six keys
CanonicalKey(k) ==
  CASE k = "charset" -> "Charset"
    [] k = "t" -> "T"
    [] k = "sign" -> "Sign"
    [] k = "nonce" -> "Nonce"
    [] OTHER -> k

\* the return statement: the caller resumes after its call
ApiReturn(body, err) ==
  /\ ret' = [body |-> body, err |-> err]
  /\ pc' = IF call.site = "devices" THEN "afterDevices" ELSE "afterStatus"
  /\ events' = Append(events, "return " \o call.site)

\* the deferred resp.Body.Close() of line 65, run on return
Close(rs) == [rs EXCEPT ![Len(rs)].closes = @ + 1]

\* main.go:49-57
ApiNewRequest ==
  /\ pc = "NewRequest"
  /\ IF stringContainsCTLByte(call.url)
       THEN /\ ApiReturn(NilBody, "error creating request: parse: net/url: invalid control character in URL")
            /\ UNCHANGED req
       ELSE /\ req' = [method |-> "GET", url |-> call.url,
                       header |-> [c \in {CanonicalKey(k) : k \in DOMAIN call.headers} |->
                                     <<call.headers[CHOOSE k \in DOMAIN call.headers : CanonicalKey(k) = c]>>]]
            /\ pc' = "Do"
            /\ UNCHANGED <<ret, events>>
  /\ UNCHANGED <<env, exit, locals, call, resp, stdout, stderr, requests, responses>>

\* main.go:60-65: the transport fails, or a response arrives and its Close is
\* deferred
ApiDo ==
  /\ pc = "Do"
  /\ requests' = Append(requests, req)
  /\ \/ /\ ApiReturn(NilBody, "error executing HTTP request: Get: dial tcp: connection refused")
        /\ UNCHANGED <<resp, responses>>
     \/ /\ \E status \in StatusCodes :
             \E body \in IF status # StatusOK THEN {ErrorPage}
                         ELSE IF call.site = "devices" THEN DevicesBodies
                         ELSE StatusBodies :
               /\ resp' = [status |-> status, body |-> body]
               /\ responses' = Append(responses, [site |-> call.site, status |-> status, closes |-> 0])
        /\ pc' = "CheckStatus"
        /\ events' = Append(events, "GET " \o call.site)
        /\ UNCHANGED ret
  /\ UNCHANGED <<env, exit, locals, call, req, stdout, stderr>>

\* faulty variant: only 4xx and 5xx count as failures
apiRequestFailed_ErrorClasses(status) == status >= 400

\* main.go:68
apiRequestFailed(status) == status # StatusOK

\* faulty variant: Close is not deferred and the error return skips it
ApiCheckStatus_NoClose ==
  /\ pc = "CheckStatus"
  /\ IF resp.status # StatusOK
       THEN /\ ApiReturn(NilBody, "error: API request failed with status code " \o Itoa(resp.status))
            /\ UNCHANGED responses
       ELSE /\ pc' = "ReadAll"
            /\ UNCHANGED <<ret, events, responses>>
  /\ UNCHANGED <<env, exit, locals, call, req, resp, stdout, stderr, requests>>

\* main.go:68-70
ApiCheckStatus ==
  /\ pc = "CheckStatus"
  /\ IF apiRequestFailed(resp.status)
       THEN /\ ApiReturn(NilBody, "error: API request failed with status code " \o Itoa(resp.status))
            /\ responses' = Close(responses)
       ELSE /\ pc' = "ReadAll"
            /\ UNCHANGED <<ret, events, responses>>
  /\ UNCHANGED <<env, exit, locals, call, req, resp, stdout, stderr, requests>>

\* main.go:73-78: the body arrives whole, or the connection breaks
ApiReadAll ==
  /\ pc = "ReadAll"
  /\ \/ ApiReturn(NilBody, "error reading response body: unexpected EOF")
     \/ ApiReturn(resp.body, NilError)
  /\ responses' = Close(responses)
  /\ UNCHANGED <<env, exit, locals, call, req, resp, stdout, stderr, requests>>

(***************************************************************************)
(* main after the devices call (src/main.go:101-183).                      *)
(***************************************************************************)
\* main.go:101-115
AfterDevices ==
  /\ pc = "afterDevices"
  /\ bodyDevices' = ret.body
  /\ IF ret.err # NilError
       THEN /\ Return(<<Line("Error calling /devices API: " \o ret.err)>>)
            /\ UNCHANGED devicesResponse
       ELSE LET raw == RawLine("Response from /devices: ", ret.body)
                u == Unmarshal(ret.body)
            IN  IF u.err # NilError
                  THEN /\ Return(<<raw, Line("Error unmarshalling /devices response: " \o u.err)>>)
                       /\ UNCHANGED devicesResponse
                  ELSE /\ devicesResponse' = u.map
                       /\ stdout' = Append(stdout, raw)
                       /\ pc' = "extractDevices"
                       /\ UNCHANGED <<exit, stderr>>
  /\ UNCHANGED <<env, token, secret, apiHeader, devices, deviceID, bodyDeviceStatus,
                 statusResponse, callVars, events>>

\* faulty variant: the length is not checked and devices[0] of an empty list panics
ExtractDevices_NoEmptyCheck ==
  /\ pc = "extractDevices"
  /\ LET body == Index(devicesResponse, "body")
     IN  IF body.kind # "object"
           THEN /\ Panic(body, "map[string]interface {}")
                /\ UNCHANGED devices
           ELSE LET deviceList == Index(body.fields, "deviceList")
                IN  IF deviceList.kind # "array"
                      THEN /\ Panic(deviceList, "[]interface {}")
                           /\ UNCHANGED devices
                      ELSE /\ devices' = deviceList.items
                           /\ IF Len(devices') = 0
                                THEN /\ stderr' = Append(stderr, "panic: runtime error: index out of range [0] with length 0")
                                     /\ pc' = "exit"
                                     /\ exit' = "panic"
                                     /\ UNCHANGED stdout
                                ELSE /\ pc' = "selectDevice"
                                     /\ UNCHANGED <<exit, stdout, stderr>>
  /\ UNCHANGED <<env, token, secret, apiHeader, bodyDevices, devicesResponse, deviceID,
                 bodyDeviceStatus, statusResponse, callVars, events>>

\* main.go:118-122
ExtractDevices ==
  /\ pc = "extractDevices"
  /\ LET body == Index(devicesResponse, "body")
     IN  IF body.kind # "object"
           THEN /\ Panic(body, "map[string]interface {}")
                /\ UNCHANGED devices
           ELSE LET deviceList == Index(body.fields, "deviceList")
                IN  IF deviceList.kind # "array"
                      THEN /\ Panic(deviceList, "[]interface {}")
                           /\ UNCHANGED devices
                      ELSE /\ devices' = deviceList.items
                           /\ IF Len(devices') = 0
                                THEN Return(<<Line("No devices found.")>>)
                                ELSE /\ pc' = "selectDevice"
                                     /\ UNCHANGED <<exit, stdout, stderr>>
  /\ UNCHANGED <<env, token, secret, apiHeader, bodyDevices, devicesResponse, deviceID,
                 bodyDeviceStatus, statusResponse, callVars, events>>

\* faulty variant: the last device is taken
first_Last(list) == list[Len(list)]

\* main.go:125: devices[0]
first(list) == list[1]

\* main.go:125-127
SelectDevice ==
  /\ pc = "selectDevice"
  /\ LET firstDevice == first(devices)
     IN  IF firstDevice.kind # "object"
           THEN /\ Panic(firstDevice, "map[string]interface {}")
                /\ UNCHANGED deviceID
           ELSE LET id == Index(firstDevice.fields, "deviceId")
                IN  IF id.kind # "string"
                      THEN /\ Panic(id, "string")
                           /\ UNCHANGED deviceID
                      ELSE /\ deviceID' = id.str
                           /\ stdout' = Append(stdout, Line("Using deviceId: " \o id.str))
                           /\ pc' = "callStatus"
                           /\ UNCHANGED <<exit, stderr>>
  /\ UNCHANGED <<env, token, secret, apiHeader, bodyDevices, devicesResponse, devices,
                 bodyDeviceStatus, statusResponse, callVars, events>>

\* the second argument of the call of main.go:131
StatusCallHeaders == apiHeader

\* main.go:130-131: callSwitchBotAPI(apiURLDeviceStatus, apiHeader) is entered
CallStatus ==
  /\ pc = "callStatus"
  /\ call' = [site |-> "status",
              url |-> "https://api.switch-bot.com/v1.1/devices/" \o deviceID \o "/status",
              headers |-> StatusCallHeaders]
  /\ pc' = "NewRequest"
  /\ events' = Append(events, "call status")
  /\ UNCHANGED <<env, exit, locals, req, resp, ret, stdout, stderr, requests, responses>>

\* main.go:132-146
AfterStatus ==
  /\ pc = "afterStatus"
  /\ bodyDeviceStatus' = ret.body
  /\ IF ret.err # NilError
       THEN /\ Return(<<Line("Error calling /devices/{deviceId}/status API: " \o ret.err)>>)
            /\ UNCHANGED statusResponse
       ELSE LET raw == RawLine("Response from /devices/{deviceId}/status: ", ret.body)
                u == Unmarshal(ret.body)
            IN  IF u.err # NilError
                  THEN /\ Return(<<raw, Line("Error unmarshalling /devices/{deviceId}/status response: " \o u.err)>>)
                       /\ UNCHANGED statusResponse
                  ELSE /\ statusResponse' = u.map
                       /\ stdout' = Append(stdout, raw)
                       /\ pc' = "report"
                       /\ UNCHANGED <<exit, stderr>>
  /\ UNCHANGED <<env, token, secret, apiHeader, bodyDevices, devicesResponse, devices,
                 deviceID, callVars, events>>

\* faulty variant: the zero value of the failed assertion is kept
StringOr_ZeroValue(m, k, default) ==
  LET v == Index(m, k) IN IF v.kind = "string" THEN v.str ELSE ""

\* v, ok := m[k].(string); if !ok { v = "N/A" }
StringOr(m, k, default) ==
  LET v == Index(m, k) IN IF v.kind = "string" THEN v.str ELSE default

\* v, ok := m[k].(float64); if !ok { v = 0.0 }
Float64Or(m, k, default) ==
  LET v == Index(m, k) IN IF v.kind = "number" THEN v.num ELSE default

\* main.go:156-182: the five lines printed for the status body
ReportLines(body) ==
  <<Line("Device ID: " \o StringOr(body, "deviceId", "N/A")),
    Line("Device Type: " \o StringOr(body, "deviceType", "N/A")),
    Line("Hub Device ID: " \o StringOr(body, "hubDeviceId", "N/A")),
    Line("Humidity: " \o FormatFloat2(Float64Or(body, "humidity", 0))),
    Line("Temperature: " \o FormatFloat2(Float64Or(body, "temperature", 0)) \o "Â°C")>>

\* main.go:149-182
Report ==
  /\ pc = "report"
  /\ LET body == Index(statusResponse, "body")
     IN  IF body.kind # "object"
           THEN Return(<<Line("Error: response body is missing or not in expected format.")>>)
           ELSE Return(ReportLines(body.fields))
  /\ UNCHANGED <<env, locals, callVars, events>>

Next ==
  \/ GetEnv
  \/ CreateHeaders
  \/ CallDevices
  \/ ApiNewRequest
  \/ ApiDo
  \/ ApiCheckStatus
  \/ ApiReadAll
  \/ AfterDevices
  \/ ExtractDevices
  \/ SelectDevice
  \/ CallStatus
  \/ AfterStatus
  \/ Report

Spec == Init /\ [][Next]_vars

(***************************************************************************)
(* createHeaders on its own: main.go:92-96 entered with any token and      *)
(* secret, the empty ones too.                                             *)
(***************************************************************************)
InitHeaders ==
  /\ env \in [SWITCHBOT_TOKEN : Tokens, SWITCHBOT_API_KEY : Secrets]
  /\ pc = "createHeaders"
  /\ exit = "running"
  /\ token = env.SWITCHBOT_TOKEN
  /\ secret = env.SWITCHBOT_API_KEY
  /\ apiHeader = <<>>
  /\ bodyDevices = NilBody
  /\ devicesResponse = <<>>
  /\ devices = <<>>
  /\ deviceID = ""
  /\ bodyDeviceStatus = NilBody
  /\ statusResponse = <<>>
  /\ call = NoCall
  /\ req = NoRequest
  /\ resp = NoResponse
  /\ ret = NoReturn
  /\ stdout = <<>>
  /\ stderr = <<>>
  /\ requests = <<>>
  /\ responses = <<>>
  /\ events = <<>>

SpecHeaders == InitHeaders /\ [][CreateHeaders]_vars

(***************************************************************************)
(* Properties.                                                             *)
(***************************************************************************)
Last(s) == s[Len(s)]

\* the body decodes into a map[string]interface{} without error
Decodes(body) ==
  body.valid /\ body.json.kind \in {"object", "null"}

\* the decoded body has an object "body" with a list "deviceList" in it
HasDeviceList(body) ==
  /\ Decodes(body)
  /\ body.json.kind = "object"
  /\ Index(body.json.fields, "body").kind = "object"
  /\ Index(Index(body.json.fields, "body").fields, "deviceList").kind = "array"

DeviceListOf(body) ==
  Index(Index(body.json.fields, "body").fields, "deviceList").items

\* C1: in a run that hands both requests to the HTTP client, createHeaders
\* ran again after the devices call returned, and the status request does not
\* carry the nonce of the devices request.
C1_StatusHeadersFresh ==
  Len(requests) = 2 =>
    /\ \E k \in 1..Len(events) : \E i \in (k + 1)..Len(events) :
         events[k] = "return devices" /\ events[i] = "createHeaders"
    /\ requests[2].header["Nonce"] # requests[1].header["Nonce"]

\* C2: with SWITCHBOT_TOKEN or SWITCHBOT_API_KEY empty or unset, no header
\* set is built and no request is made, and the run ends having printed the
\* configuration error only.
C2_MissingCredentialAborts ==
  (env.SWITCHBOT_TOKEN = <<>> \/ env.SWITCHBOT_API_KEY = <<>>) =>
    /\ pc \in {"getenv", "exit"}
    /\ events = <<>>
    /\ requests = <<>>
    /\ DOMAIN apiHeader = {}
    /\ pc = "exit" =>
         /\ exit = "returned"
         /\ Len(stdout) = 1
         /\ stdout[1].text = "Error: SWITCHBOT_TOKEN or SWITCHBOT_API_KEY environment variable is not set"

C2_Witness ==
  /\ pc = "exit"
  /\ env.SWITCHBOT_TOKEN # <<>>
  /\ env.SWITCHBOT_API_KEY = <<>>
  /\ Len(stdout) = 1

\* the line main prints when the call of the site failed with err
CallErrorLine(site, err) ==
  IF site = "devices" THEN "Error calling /devices API: " \o err
  ELSE "Error calling /devices/{deviceId}/status API: " \o err

RawPrefix(site) ==
  IF site = "devices" THEN "Response from /devices: "
  ELSE "Response from /devices/{deviceId}/status: "

\* C3: a response with a status other than 200, from either endpoint, makes
\* callSwitchBotAPI return the API error with that status code and a nil
\* body; main prints the error with the code and returns; the request was the
\* last one, and the body of that endpoint is neither printed nor decoded.
C3_Non200Aborts ==
  \A i \in 1..Len(responses) :
    responses[i].status # 200 =>
      /\ i = Len(responses)
      /\ Len(requests) = i
      /\ pc \in {"CheckStatus", "afterDevices", "afterStatus", "exit"}
      /\ pc # "CheckStatus" =>
           /\ ret.body.nil
           /\ ret.err = "error: API request failed with status code "
                          \o Itoa(responses[i].status)
      /\ pc = "exit" =>
           /\ exit = "returned"
           /\ Last(stdout).text = CallErrorLine(responses[i].site, ret.err)
           /\ \A k \in 1..Len(stdout) :
                stdout[k].raw => stdout[k].text # RawPrefix(responses[i].site)
           /\ IF responses[i].site = "devices"
                THEN DOMAIN devicesResponse = {} /\ bodyDevices.nil
                ELSE DOMAIN statusResponse = {} /\ bodyDeviceStatus.nil

C3_Witness ==
  /\ pc = "exit"
  /\ Len(responses) = 2
  /\ responses[2].status = 404
  /\ Last(stdout).text = "Error calling /devices/{deviceId}/status API: error: API request failed with status code 404"

\* C4: when the devices call returned a body that decodes and whose
\* body.deviceList is an empty list, exactly one request has been made, no
\* status call follows, and the run ends by a return after printing
\* "No devices found.".
C4_EmptyListEndsRun ==
  (HasDeviceList(bodyDevices) /\ Len(DeviceListOf(bodyDevices)) = 0) =>
    /\ pc \in {"extractDevices", "exit"}
    /\ Len(requests) = 1
    /\ Len(responses) = 1
    /\ responses[1].status = 200
    /\ pc = "exit" =>
         /\ exit = "returned"
         /\ Last(stdout).text = "No devices found."
         /\ ~Last(stdout).raw

C4_Witness ==
  /\ pc = "exit"
  /\ HasDeviceList(bodyDevices)
  /\ Len(DeviceListOf(bodyDevices)) = 0
  /\ Last(stdout).text = "No devices found."

\* C5: when the devices body decodes but has no object "body" or no list
\* "deviceList" in it, the run ends as every other stage failure does, by
\* printing a diagnostic and returning, and no status call is made.
C5_ShapeErrorPrintsDiagnostic ==
  (pc = "exit" /\ Decodes(bodyDevices) /\ ~HasDeviceList(bodyDevices)) =>
    /\ Len(requests) = 1
    /\ exit = "returned"
    /\ ~Last(stdout).raw

\* C6: every run ends by a return from main, with exit status 0, whatever
\* failed.
C6_AlwaysReturns ==
  pc = "exit" => (exit = "returned" /\ ExitStatus = 0)

\* the deviceId the status URL must name
FirstDeviceId(body) ==
  Index(DeviceListOf(body)[1].fields, "deviceId").str

\* C7: a status request is made only after the devices call returned 200
\* with a body that decodes and holds a non-empty device list, and its URL is
\* the base URL, /devices/, the deviceId of the first element of the list,
\* /status; the first request is always the devices request.
C7_StatusCallForFirstDevice ==
  /\ Len(requests) <= 2
  /\ Len(requests) >= 1 => requests[1].url = "https://api.switch-bot.com/v1.1/devices"
  /\ (pc \in {"callStatus"} \/ call.site = "status") =>
       /\ responses[1].status = 200
       /\ HasDeviceList(bodyDevices)
       /\ Len(DeviceListOf(bodyDevices)) >= 1
       /\ DeviceListOf(bodyDevices)[1].kind = "object"
       /\ Index(DeviceListOf(bodyDevices)[1].fields, "deviceId").kind = "string"
  /\ Len(requests) = 2 =>
       /\ call.site = "status"
       /\ requests[2].method = "GET"
       /\ requests[2].url = "https://api.switch-bot.com/v1.1" \o "/devices/"
                              \o FirstDeviceId(bodyDevices) \o "/status"

C7_Witness ==
  /\ Len(requests) = 2
  /\ Len(devices) = 2
  /\ devices[2].kind = "object"
  /\ Index(devices[2].fields, "deviceId").kind = "string"
  /\ Index(devices[2].fields, "deviceId").str = "XYZ789"
  /\ requests[2].url = "https://api.switch-bot.com/v1.1/devices/ABC123/status"

\* the status body decoded and has an object "body"
HasStatusBody(body) ==
  /\ Decodes(body)
  /\ body.json.kind = "object"
  /\ Index(body.json.fields, "body").kind = "object"

StatusBodyOf(body) == Index(body.json.fields, "body").fields

\* the text a string field must print as
ExpectedString(o, k) ==
  IF k \in DOMAIN o /\ o[k].kind = "string" THEN o[k].str ELSE "N/A"

\* the text a numeric field must print as: two decimals of the number, or
\* 0.00 without one
ExpectedNumber(o, k) ==
  IF k \in DOMAIN o /\ o[k].kind = "number"
    THEN CASE o[k].num = 55500 -> "55.50"
           [] o[k].num = 21346 -> "21.35"
           [] o[k].num = 0 - 3054 -> "-3.05"
           [] OTHER -> FormatFloat2(o[k].num)
    ELSE "0.00"

\* C8: once the status body has decoded, a run with an object "body" ends by
\* a return whose last five lines are the five labelled fields, each being
\* its value when present with the right type and its default otherwise; a
\* run without an object "body" ends with the formatting error and none of
\* the five lines.
C8_SoftDefaults ==
  (pc = "exit" /\ Decodes(bodyDeviceStatus)) =>
    /\ exit = "returned"
    /\ IF HasStatusBody(bodyDeviceStatus)
         THEN LET o == StatusBodyOf(bodyDeviceStatus)
                  n == Len(stdout)
              IN  /\ n = 8
                  /\ stdout[n - 4].text = "Device ID: " \o ExpectedString(o, "deviceId")
                  /\ stdout[n - 3].text = "Device Type: " \o ExpectedString(o, "deviceType")
                  /\ stdout[n - 2].text = "Hub Device ID: " \o ExpectedString(o, "hubDeviceId")
                  /\ stdout[n - 1].text = "Humidity: " \o ExpectedNumber(o, "humidity")
                  /\ stdout[n].text = "Temperature: " \o ExpectedNumber(o, "temperature") \o "Â°C"
         ELSE /\ Len(stdout) = 4
              /\ stdout[3].raw
              /\ stdout[4].text = "Error: response body is missing or not in expected format."

C8_Witness ==
  /\ pc = "exit"
  /\ HasStatusBody(bodyDeviceStatus)
  /\ "humidity" \notin DOMAIN StatusBodyOf(bodyDeviceStatus)
  /\ "deviceId" \in DOMAIN StatusBodyOf(bodyDeviceStatus)
  /\ StatusBodyOf(bodyDeviceStatus)["deviceId"].kind = "number"
  /\ stdout[Len(stdout) - 4].text = "Device ID: N/A"
  /\ stdout[Len(stdout) - 1].text = "Humidity: 0.00"
  /\ Last(stdout).text = "Temperature: 21.35Â°C"

\* C9: a response is closed at most once, is open only while the call that
\* obtained it is between client.Do and its return, so at most one is open,
\* and is closed exactly once when that call has returned, whichever way it
\* returned.
C9_ResponseReleasedOnce ==
  /\ \A i \in 1..Len(responses) :
       /\ responses[i].closes \in {0, 1}
       /\ responses[i].closes = 0 =>
            (i = Len(responses) /\ pc \in {"CheckStatus", "ReadAll"})
  /\ Cardinality({i \in 1..Len(responses) : responses[i].closes = 0}) <= 1
  /\ pc \notin {"CheckStatus", "ReadAll"} =>
       \A i \in 1..Len(responses) : responses[i].closes = 1

C9_Witness ==
  /\ pc = "exit"
  /\ Len(responses) = 2
  /\ responses[1].closes = 1
  /\ responses[2].closes = 1
  /\ responses[2].status = 500

\* base64 of HMAC-SHA256("s1", "t1" ++ "123" ++ "00000000-0000-4000-8000-000000000001"),
\* computed outside the model: 8aghSeDKlE0dLhq+YCpnYSx+SAU28NF3n+y3NM2jbp4=
KnownSignature ==
  <<56, 97, 103, 104, 83, 101, 68, 75, 108, 69, 48, 100, 76, 104, 113, 43, 89, 67, 112, 110, 89, 83, 120, 43, 83, 65, 85, 50, 56, 78, 70, 51, 110, 43, 121, 51, 78, 77, 50, 106, 98, 112, 52, 61>>

\* C10: createHeaders returns no error and six entries; Authorization is the
\* token, Content-Type and charset are fixed, and sign is the standard base64
\* of HMAC-SHA256, keyed with the secret, over the token followed by the
\* emitted "t" and the emitted "nonce"; "t" is a decimal number of
\* milliseconds and "nonce" a UUID that was drawn.
C10_SignatureRecomputable ==
  pc # "createHeaders" =>
    /\ pc = "callDevices"
    /\ stdout = <<>>
    /\ DOMAIN apiHeader = {"Authorization", "Content-Type", "charset", "t", "sign", "nonce"}
    /\ Cardinality(DOMAIN apiHeader) = 6
    /\ apiHeader["Authorization"] = token
    /\ apiHeader["Content-Type"] = <<97, 112, 112, 108, 105, 99, 97, 116, 105, 111, 110, 47, 106, 115, 111, 110>>
    /\ apiHeader["charset"] = <<117, 116, 102, 45, 56>>
    /\ apiHeader["nonce"] \in Nonces
    /\ \E now \in Nows : apiHeader["t"] = FormatInt(now \div 1000000)
    /\ apiHeader["sign"] =
         EncodeToString(HmacSha256(secret, token \o apiHeader["t"] \o apiHeader["nonce"]))
    /\ Len(apiHeader["sign"]) = 44
    /\ (token = <<116, 49>> /\ secret = <<115, 49>> /\ apiHeader["t"] = <<49, 50, 51>>
          /\ apiHeader["nonce"][36] = 49) =>
         apiHeader["sign"] = KnownSignature

C10_Witness ==
  /\ pc = "callDevices"
  /\ token = <<116, 49>>
  /\ secret = <<115, 49>>
  /\ apiHeader["t"] = <<49, 50, 51>>
  /\ apiHeader["nonce"][36] = 49
  /\ apiHeader["sign"] = KnownSignature
====
